---------------------------- MODULE Spec2Model ----------------------------
(***************************************************************************)
(* The judgment evaluator of formality-core (judgment.rs): the code that   *)
(* `judgment_fn!` and `push_rules!` expand to, run as a small-step machine *)
(* over rule tables.  A judgment is a record of assertions, trivial cases  *)
(* and rules; a rule is the token list the macro receives (conditions and  *)
(* `!` markers), a conclusion pattern and a conclusion value.              *)
(*                                                                         *)
(* fixed_point::fixed_point, FixedPointStack, ProvenSet and TryIntoIter    *)
(* are declared in modules whose text is not part of the sources at hand;  *)
(* they are modelled from the written design (sections 4.1 and 4.2).       *)
(***************************************************************************)
EXTENDS Integers, Sequences, FiniteSets, TLC

\* Inputs and graph nodes range over 0..MaxN.
MaxN == 4

Inputs == 0 .. MaxN

\* The places that can hold a Db handle, and the Db::new calls of a run.
MaxHandles == 3

MaxNew == 4

Kinds ==
    {"is_even", "reachable", "cyc", "chk", "ping", "pong", "sel", "sel_moved", "dip",
     "nest"}

(***************************************************************************)
(* Expressions of the rule tables.  A term is the judgment's input, a      *)
(* value bound by an earlier condition, or a literal.                      *)
(***************************************************************************)
InputTerm == [t |-> "n", v |-> 0]

Var(i) == [t |-> "var", v |-> i]

Lit(c) == [t |-> "const", v |-> c]

Expr(op, l, r) == [op |-> op, l |-> l, r |-> r]

Val(term, n, env) ==
    CASE term.t = "n" -> n
      [] term.t = "var" -> env[term.v]
      [] OTHER -> term.v

\* The sample graph the reachability judgment walks (edges 0->1, 1->0, 1->2, 2->3).
Successors(a) ==
    CASE a = 0 -> <<1>>
      [] a = 1 -> <<0, 2>>
      [] a = 2 -> <<3>>
      [] OTHER -> <<>>

EvalBool(e, n, env) ==
    LET l == Val(e.l, n, env)
        r == Val(e.r, n, env)
    IN  CASE e.op = "eq" -> l = r
          [] e.op = "ne" -> l # r
          [] e.op = "le" -> l <= r
          [] e.op = "ge" -> l >= r
          [] OTHER -> FALSE

EvalVal(e, n, env) ==
    LET l == Val(e.l, n, env)
        r == Val(e.r, n, env)
    IN  CASE e.op = "id" -> l
          [] e.op = "add" -> l + r
          [] e.op = "sub" -> l - r
          [] e.op = "swap" -> IF l = 0 THEN 1 ELSE 0
          [] OTHER -> l

\* A set as the ascending sequence a BTreeSet iterates in.
RECURSIVE SetToSeq(_)
SetToSeq(S) ==
    IF S = {} THEN <<>>
    ELSE LET m == CHOOSE x \in S : \A y \in S : x <= y
         IN  <<m>> \o SetToSeq(S \ {m})

RECURSIVE UpTo(_, _)
UpTo(a, b) == IF a > b THEN <<>> ELSE <<a>> \o UpTo(a + 1, b)

(***************************************************************************)
(* What an iterated expression converts to: ok with the items in order, or *)
(* not ok (an absent optional).  Collections always convert.               *)
(***************************************************************************)
EvalIter(e, n, env) ==
    LET l == Val(e.l, n, env)
        r == Val(e.r, n, env)
    IN  CASE e.op = "successors" -> [ok |-> TRUE, items |-> Successors(l)]
          [] e.op = "range" -> [ok |-> TRUE, items |-> UpTo(l, r)]
          [] e.op = "checked_sub" ->
                IF l >= r THEN [ok |-> TRUE, items |-> <<l - r>>]
                ELSE [ok |-> FALSE, items |-> <<>>]
          [] OTHER -> [ok |-> FALSE, items |-> <<>>]

(***************************************************************************)
(* Rule tokens: the parenthesized conditions and the `!` marker.           *)
(***************************************************************************)
Cond(k, e, j) == [k |-> k, e |-> e, j |-> j]

If(e) == Cond("if", e, "")

AssertC(e) == Cond("assert", e, "")

IfLet(e) == Cond("iflet", e, "")

Let(e) == Cond("let", e, "")

Iter(e) == Cond("iter", e, "")

Apply(j, e) == Cond("call", e, j)

\* (if $c), $c the test that judgment j applied to e does not convert
\* (try_into_iter(..).is_err()).
Unless(j, e) == Cond("unless", e, j)

Bang == Cond("!", Expr("id", Lit(0), Lit(0)), "")

Rule(name, pat, body, v) == [name |-> name, pat |-> pat, body |-> body, v |-> v]

(***************************************************************************)
(* The judgments under evaluation.                                         *)
(*   is_even(n):    "zero" (if n == 0); "step" (n.checked_sub(2) => m)     *)
(*                  (is_even(m) => _).                                     *)
(*   reachable(a):  "base" (successors(a) => b); "transitive"              *)
(*                  (reachable(a) => b) (reachable(b) => c).               *)
(*   cyc(n):        "base" (if n == 0) => 7; "cycle" (cyc(swap(n)) => x).  *)
(*   chk(n):        assert(n != 1), trivial(n == 0 => 10),                 *)
(*                  trivial(n <= 2 => 11), trivial(n == 2 => 12), and      *)
(*                  rules with commit points, a narrowing conclusion       *)
(*                  pattern, let / if let / assert conditions.             *)
(*   ping(n):       "to_pong" (pong(n) => x) => x; "odd", for an odd n     *)
(*                  only, (if n >= 3) ! (if n >= 9) => n.                  *)
(*   pong(n):       "zero" (if n == 0) => 8; "back" (ping(n) => x) => x:   *)
(*                  two judgments that apply each other to the same input. *)
(*   sel(n):        "scan" (1..=n => x) (if x != 2) ! (if x != 1) => x;    *)
(*                  "big" (if n >= 4) => n.                                *)
(*   sel_moved(n):  sel with the marker of "scan" moved one condition      *)
(*                  back: (1..=n => x) ! (if x != 2) (if x != 1).          *)
(*   dip(n):        "seed" (if dip(n) is not proven) => 1;                 *)
(*                  "next" (dip(n) => x) => 2.                             *)
(*   nest(n):       "walk" (1..=n => x) (is_even(x) => y) ! (if y >= 9)    *)
(*                  => y: a judgment applied, before the marker, in every  *)
(*                  branch of an iteration.                                *)
(***************************************************************************)
IsEvenRules ==
    << Rule("zero", "id",
            << If(Expr("eq", InputTerm, Lit(0))) >>,
            Expr("id", InputTerm, Lit(0))),
       Rule("step", "id",
            << Iter(Expr("checked_sub", InputTerm, Lit(2))),
               Apply("is_even", Expr("id", Var(1), Lit(0))) >>,
            Expr("id", InputTerm, Lit(0))) >>

ReachableRules ==
    << Rule("base", "id",
            << Iter(Expr("successors", InputTerm, Lit(0))) >>,
            Expr("id", Var(1), Lit(0))),
       Rule("transitive", "id",
            << Apply("reachable", Expr("id", InputTerm, Lit(0))),
               Apply("reachable", Expr("id", Var(1), Lit(0))) >>,
            Expr("id", Var(2), Lit(0))) >>

CycRules ==
    << Rule("base", "id",
            << If(Expr("eq", InputTerm, Lit(0))) >>,
            Expr("id", Lit(7), Lit(0))),
       Rule("cycle", "id",
            << Apply("cyc", Expr("swap", InputTerm, Lit(0))) >>,
            Expr("id", Var(1), Lit(0))) >>

ChkRules ==
    << Rule("commit", "id",
            << Iter(Expr("range", Lit(1), Lit(2))),
               If(Expr("eq", Var(1), Lit(1))),
               Bang,
               If(Expr("ge", Var(1), Lit(9))) >>,
            Expr("id", Var(1), Lit(0))),
       Rule("sub", "odd",
            << Let(Expr("sub", InputTerm, Lit(1))),
               AssertC(Expr("ge", Var(1), Lit(2))),
               Apply("chk", Expr("id", Var(1), Lit(0))),
               IfLet(Expr("checked_sub", Var(3), Lit(11))) >>,
            Expr("id", Var(4), Lit(0))),
       Rule("early", "id",
            << If(Expr("ge", InputTerm, Lit(4))),
               Bang,
               Apply("chk", Expr("sub", InputTerm, Lit(3))) >>,
            Expr("id", Var(2), Lit(0))) >>

PingRules ==
    << Rule("to_pong", "id",
            << Apply("pong", Expr("id", InputTerm, Lit(0))) >>,
            Expr("id", Var(1), Lit(0))),
       Rule("odd", "odd",
            << If(Expr("ge", InputTerm, Lit(3))),
               Bang,
               If(Expr("ge", InputTerm, Lit(9))) >>,
            Expr("id", InputTerm, Lit(0))) >>

PongRules ==
    << Rule("zero", "id",
            << If(Expr("eq", InputTerm, Lit(0))) >>,
            Expr("id", Lit(8), Lit(0))),
       Rule("back", "id",
            << Apply("ping", Expr("id", InputTerm, Lit(0))) >>,
            Expr("id", Var(1), Lit(0))) >>

ScanConds ==
    << Iter(Expr("range", Lit(1), InputTerm)),
       If(Expr("ne", Var(1), Lit(2))),
       If(Expr("ne", Var(1), Lit(1))) >>

\* The tokens of a rule: the conditions with a `!` after the first k.
WithMarker(conds, k) ==
    SubSeq(conds, 1, k) \o << Bang >> \o SubSeq(conds, k + 1, Len(conds))

SelRules(k) ==
    << Rule("scan", "id", WithMarker(ScanConds, k), Expr("id", Var(1), Lit(0))),
       Rule("big", "id",
            << If(Expr("ge", InputTerm, Lit(4))) >>,
            Expr("id", InputTerm, Lit(0))) >>

DipRules ==
    << Rule("seed", "id",
            << Unless("dip", Expr("id", InputTerm, Lit(0))) >>,
            Expr("id", Lit(1), Lit(0))),
       Rule("next", "id",
            << Apply("dip", Expr("id", InputTerm, Lit(0))) >>,
            Expr("id", Lit(2), Lit(0))) >>

NestRules ==
    << Rule("walk", "id",
            << Iter(Expr("range", Lit(1), InputTerm)),
               Apply("is_even", Expr("id", Var(1), Lit(0))),
               Bang,
               If(Expr("ge", Var(2), Lit(9))) >>,
            Expr("id", Var(2), Lit(0))) >>

Judgment(kind) ==
    CASE kind = "is_even" ->
            [asserts |-> <<>>, trivials |-> <<>>, rules |-> IsEvenRules]
      [] kind = "reachable" ->
            [asserts |-> <<>>, trivials |-> <<>>, rules |-> ReachableRules]
      [] kind = "cyc" ->
            [asserts |-> <<>>, trivials |-> <<>>, rules |-> CycRules]
      [] kind = "ping" ->
            [asserts |-> <<>>, trivials |-> <<>>, rules |-> PingRules]
      [] kind = "pong" ->
            [asserts |-> <<>>, trivials |-> <<>>, rules |-> PongRules]
      [] kind = "sel" ->
            [asserts |-> <<>>, trivials |-> <<>>, rules |-> SelRules(2)]
      [] kind = "sel_moved" ->
            [asserts |-> <<>>, trivials |-> <<>>, rules |-> SelRules(1)]
      [] kind = "dip" ->
            [asserts |-> <<>>, trivials |-> <<>>, rules |-> DipRules]
      [] kind = "nest" ->
            [asserts |-> <<>>, trivials |-> <<>>, rules |-> NestRules]
      [] OTHER ->
            [asserts |-> << Expr("ne", InputTerm, Lit(1)) >>,
             trivials |-> << [c |-> Expr("eq", InputTerm, Lit(0)),
                              r |-> Expr("id", Lit(10), Lit(0))],
                             [c |-> Expr("le", InputTerm, Lit(2)),
                              r |-> Expr("id", Lit(11), Lit(0))],
                             [c |-> Expr("eq", InputTerm, Lit(2)),
                              r |-> Expr("id", Lit(12), Lit(0))] >>,
             rules |-> ChkRules]

(***************************************************************************)
(* push_rules! @accum: walk the tokens of a rule, moving each condition    *)
(* onto the list and counting it; a `!` overwrites the match index with    *)
(* the count of conditions seen so far.                                    *)
(***************************************************************************)
RECURSIVE AccumFrom(_, _, _, _, _)
AccumFrom(body, i, match_index, current_index, conds) ==
    IF i > Len(body) THEN [match_index |-> match_index, conds |-> conds]
    ELSE IF body[i].k = "!"
         THEN AccumFrom(body, i + 1, current_index, current_index, conds)
         ELSE AccumFrom(body, i + 1, match_index, current_index + 1,
                        Append(conds, body[i]))

Accum(rule) == AccumFrom(rule.body, 1, 0, 0, <<>>)

Conds(rule) == Accum(rule).conds

MatchIndex(rule) == Accum(rule).match_index

\* push_rules! @match: an identity pattern always binds; any other pattern
\* goes through Downcast and binds only a value of the matching shape.
Downcast(pat, n) ==
    CASE pat = "id" -> TRUE
      [] pat = "odd" -> n % 2 = 1
      [] OTHER -> FALSE

(***************************************************************************)
(* State.                                                                  *)
(*   frames  the activations of judgment functions, outermost first        *)
(*   stacks  the thread-local FixedPointStack of every judgment kind       *)
(*   ret     the ProvenSet handed back by the call that just returned      *)
(*   status  "idle" (no call running), "running", "aborted" (a panic)      *)
(*   last    the latest top-level call that returned, with its result      *)
(*   dbs     the Db handles alive, by the place that holds them            *)
(*   news    the number of Db::new calls made so far                       *)
(* The fields whose names start with h_ are history: they record what      *)
(* happened and are never read by the program.                             *)
(***************************************************************************)
VARIABLES frames, stacks, ret, status, last, dbs, news

vars == <<frames, stacks, ret, status, last, dbs, news>>

NoInput == 0 - 1

NoRet == [tag |-> "None", set |-> {}, input |-> NoInput, rules |-> {}]

\* ProvenSet::proven(set) and ProvenSet::failed_rules(input, failed_rules).
Proven(S) == [tag |-> "Proven", set |-> S, input |-> NoInput, rules |-> {}]

Failed(input, failed_rules) ==
    [tag |-> "Failed", set |-> {}, input |-> input, rules |-> failed_rules]

NoCall == [kind |-> "", input |-> NoInput, outcome |-> NoRet]

NewFrame(kind, input) ==
    [kind |-> kind, input |-> input, pc |-> "assert",
     output |-> {}, failed_rules |-> {}, result |-> {}, outcome |-> NoRet,
     rule |-> 0, pos |-> 0, step_index |-> 0, env |-> <<>>, loops |-> <<>>,
     h_how |-> "none", h_asserted |-> 0, h_entry |-> stacks,
     h_rounds |-> 0, h_approx |-> {}, h_cand |-> {}, h_visited |-> <<>>,
     h_fail |-> {}, h_contrib |-> {}, h_elements |-> 0, h_started |-> 0]

Top == frames[Len(frames)]

SetTop(f) == [frames EXCEPT ![Len(frames)] = f]

Running == status = "running" /\ frames # <<>>

RuleOf(f) == Judgment(f.kind).rules[f.rule]

InBody(k) ==
    /\ Running
    /\ Top.pc = "body"
    /\ Top.pos < Len(Conds(RuleOf(Top)))
    /\ Conds(RuleOf(Top))[Top.pos + 1].k = k

CurCond == Conds(RuleOf(Top))[Top.pos + 1]

(***************************************************************************)
(* Where control goes when a branch of a rule ends (a failure, or the      *)
(* conclusion): the innermost `for` takes its next item and runs the rest  *)
(* of the rule again; a `for` with no item left ends, and so does the      *)
(* branch of the enclosing one; with no loop left the next rule starts.    *)
(* step_index is one variable of the whole rule: a new item does not       *)
(* restore it.                                                             *)
(***************************************************************************)
NumRules(f) == Len(Judgment(f.kind).rules)

\* A failure that ends the round: the rules after a failed one are skipped.
NextRuleStopAtFailure(f) ==
    IF f.failed_rules # {} THEN NumRules(f) + 1 ELSE f.rule + 1

\* push_rules!: the rules are expanded one after the other, so the end of a
\* rule, whatever it did, is the start of the next one.
NextRule(f) == f.rule + 1

RECURSIVE Unwind(_)
Unwind(f) ==
    IF f.loops = <<>>
    THEN [f EXCEPT !.rule = NextRule(f), !.pc = "rule", !.pos = 0, !.env = <<>>]
    ELSE LET lp == f.loops[Len(f.loops)]
         IN  IF lp.rest = <<>>
             THEN Unwind([f EXCEPT !.loops = SubSeq(@, 1, Len(@) - 1)])
             ELSE [f EXCEPT !.loops[Len(f.loops)].rest = Tail(lp.rest),
                            !.env = Append(SubSeq(f.env, 1, lp.pos), Head(lp.rest)),
                            !.pos = lp.pos + 1,
                            !.pc = "body",
                            !.h_started = @ + 1]

\* push_rules! @record_failure: the failure is inserted when the step index
\* has reached the match index, and only traced otherwise.
Recorded(step_index, match_index) == step_index >= match_index

RecordFailure(f, cause) ==
    LET fr == [rule |-> RuleOf(f).name, step |-> f.step_index, cause |-> cause]
        rec == Recorded(f.step_index, MatchIndex(RuleOf(f)))
    IN  [f EXCEPT !.failed_rules = IF rec THEN @ \cup {fr} ELSE @,
                  !.h_fail = @ \cup {[rule |-> f.rule, pos |-> f.pos,
                                      fr |-> fr, recorded |-> rec]}]

Cause(kind, cond) == [kind |-> kind, cond |-> cond]

\* A condition that holds: count the step and go on to the next condition,
\* with the value it binds (0 when it binds none).
Proceed(f, v) ==
    [f EXCEPT !.step_index = @ + 1, !.pos = @ + 1, !.env = Append(@, v)]

\* The Ok arm of an iteration condition: count the step, then loop.
StartIter(f, items) ==
    Unwind([f EXCEPT !.step_index = @ + 1,
                     !.loops = Append(@, [pos |-> f.pos, rest |-> items,
                                          h_items |-> items]),
                     !.h_elements = @ + Len(items)])

(***************************************************************************)
(* The knowledge-base handle (db.rs).  A Db is an Arc of the implementor   *)
(* and a solver configuration; Arc::new places the implementor at an       *)
(* address no live Arc occupies, a clone shares it, and the address is     *)
(* free again once the last handle on it is dropped.                       *)
(***************************************************************************)
Slots == 1 .. MaxHandles

\* The addresses Arc::new can return.  The allocator may place a new Arc
\* below, between or above the live ones, or where a dropped one was: one
\* address per Db::new call of a run gives every order of the live handles
\* a run can show.
Addrs == 1 .. MaxNew

SolverConfiguration == {"Cosld"}

NoDb == [db |-> 0, solver_config |-> "", h_new |-> 0]

Live == {s \in Slots : dbs[s] # NoDb}

\* Db::fields without the pointer: the configuration alone.
DbFieldsConfigOnly(h) == << 0, h.solver_config >>

\* Db::fields: (Arc::as_ptr(db), solver_config)
DbFields(h) == << h.db, h.solver_config >>

\* derive(PartialOrd, Ord) on SolverConfiguration: the order of the variants.
ConfigIndex(c) == CASE c = "Cosld" -> 0 [] OTHER -> 1

Ordering(a, b) == IF a < b THEN "Less" ELSE IF a > b THEN "Greater" ELSE "Equal"

\* PartialEq for Db: self.fields().eq(&other.fields())
DbEq(a, b) == DbFields(a) = DbFields(b)

\* Ord for Db: self.fields().cmp(&other.fields()), the order of pairs.
DbCmp(a, b) ==
    LET fa == DbFields(a)
        fb == DbFields(b)
    IN  IF Ordering(fa[1], fb[1]) # "Equal"
        THEN Ordering(fa[1], fb[1])
        ELSE Ordering(ConfigIndex(fa[2]), ConfigIndex(fb[2]))

\* Hash for Db: self.fields().hash(state), the pointer then the
\* configuration written into a hasher (here a small multiplicative one).
DbHash(h) ==
    LET f == DbFields(h)
    IN  ((f[1] * 31) + ConfigIndex(f[2])) % 7

\* Db::new into place s: a new Arc, at any address no live handle occupies.
DbNew(s, a) ==
    /\ dbs[s] = NoDb
    /\ news < MaxNew
    /\ \A t \in Live : dbs[t].db # a
    /\ dbs' = [dbs EXCEPT ![s] = [db |-> a, solver_config |-> "Cosld",
                                  h_new |-> news + 1]]
    /\ news' = news + 1
    /\ UNCHANGED <<frames, stacks, ret, status, last>>

\* derive(Clone): the handle in place s copied into place t.
DbClone(s, t) ==
    /\ dbs[s] # NoDb
    /\ dbs[t] = NoDb
    /\ dbs' = [dbs EXCEPT ![t] = dbs[s]]
    /\ UNCHANGED <<news, frames, stacks, ret, status, last>>

\* The handle in place s goes out of scope.
DbDrop(s) ==
    /\ dbs[s] # NoDb
    /\ dbs' = [dbs EXCEPT ![s] = NoDb]
    /\ UNCHANGED <<news, frames, stacks, ret, status, last>>

Init ==
    /\ frames = <<>>
    /\ stacks = [k \in Kinds |-> <<>>]
    /\ ret = NoRet
    /\ status = "idle"
    /\ last = NoCall
    /\ dbs = [s \in Slots |-> NoDb]
    /\ news = 0

\* The judgment that differs from `kind` in the position of a marker only.
Twin(kind) ==
    CASE kind = "sel" -> "sel_moved"
      [] kind = "sel_moved" -> "sel"
      [] OTHER -> ""

\* A caller outside the engine invokes judgment `k` on input `n`.  The
\* calls of one behaviour are made on one judgment, or on a judgment and its
\* twin: between two top-level calls every stack is empty, so a call starts
\* from the same program state whatever judgment was called before it.
Call(k, n) ==
    /\ status = "idle"
    /\ frames = <<>>
    /\ last.kind \in {"", k, Twin(k)}
    /\ frames' = <<NewFrame(k, n)>>
    /\ status' = "running"
    /\ UNCHANGED <<stacks, ret, last>>
    /\ UNCHANGED <<dbs, news>>

\* judgment_fn!: assert!($assert_expr) for every declared assertion.
AssertsHold(f) ==
    \A i \in 1 .. Len(Judgment(f.kind).asserts) :
        EvalBool(Judgment(f.kind).asserts[i], f.input, <<>>)

\* The trivial cases whose condition holds.
TrivialHits(f) ==
    {i \in 1 .. Len(Judgment(f.kind).trivials) :
        EvalBool(Judgment(f.kind).trivials[i].c, f.input, <<>>)}

\* The preconditions checked only for the inputs that go on to the rules.
CheckAssertsUnlessTrivial ==
    /\ Running
    /\ Top.pc = "assert"
    /\ IF AssertsHold(Top) \/ TrivialHits(Top) # {}
       THEN /\ frames' = SetTop([Top EXCEPT !.pc = "trivial", !.h_asserted = @ + 1])
            /\ UNCHANGED status
       ELSE /\ status' = "aborted"
            /\ frames' = SetTop([Top EXCEPT !.h_asserted = @ + 1])
    /\ UNCHANGED <<stacks, ret, last>>
    /\ UNCHANGED <<dbs, news>>

CheckAsserts ==
    /\ Running
    /\ Top.pc = "assert"
    /\ IF AssertsHold(Top)
       THEN /\ frames' = SetTop([Top EXCEPT !.pc = "trivial", !.h_asserted = @ + 1])
            /\ UNCHANGED status
       ELSE /\ status' = "aborted"
            /\ frames' = SetTop([Top EXCEPT !.h_asserted = @ + 1])
    /\ UNCHANGED <<stacks, ret, last>>
    /\ UNCHANGED <<dbs, news>>

\* judgment_fn!: the trivial cases, in declaration order; the first whose
\* condition holds returns proven(once(result)).
\* The trivial cases taken from the last one: the last true condition wins.
TrivialChoiceLast(hits) == CHOOSE i \in hits : \A j \in hits : i >= j

TrivialChoice(hits) == CHOOSE i \in hits : \A j \in hits : i <= j

CheckTrivial ==
    /\ Running
    /\ Top.pc = "trivial"
    /\ LET hits == TrivialHits(Top)
       IN  IF hits # {}
           THEN LET t == Judgment(Top.kind).trivials[TrivialChoice(hits)]
                IN  frames' = SetTop([Top EXCEPT
                        !.outcome = Proven({EvalVal(t.r, Top.input, <<>>)}),
                        !.pc = "return",
                        !.h_how = "trivial"])
           ELSE frames' = SetTop([Top EXCEPT !.pc = "fixed_point"])
    /\ UNCHANGED <<stacks, ret, status, last>>
    /\ UNCHANGED <<dbs, news>>

\* One stack for all the judgment functions.
RShared(name) == "ping"

\* judgment_fn!, the stack handed to fixed_point: the thread-local static R
\* declared inside the function of judgment `name`, one per function.
R(name) == name

\* A default value that is not the empty set.
DefaultValueNonEmpty == {0}

\* judgment_fn!, the default value handed to fixed_point: Default::default().
DefaultValue == {}

(***************************************************************************)
(* fixed_point: the entry.  An input found on the stack of its kind is     *)
(* answered with the approximation stored for it; any other input is       *)
(* pushed with the default value, the empty set.                           *)
(***************************************************************************)
Search(stack, input) == {i \in 1 .. Len(stack) : stack[i].input = input}

FixedPointEnter ==
    /\ Running
    /\ Top.pc = "fixed_point"
    /\ LET stack == stacks[R(Top.kind)]
           hits == Search(stack, Top.input)
       IN  IF hits # {}
           THEN /\ frames' = SetTop([Top EXCEPT
                        !.result = stack[CHOOSE i \in hits : \A j \in hits : i <= j].output,
                        !.pc = "finish",
                        !.h_how = "cycle"])
                /\ UNCHANGED stacks
           ELSE /\ stacks' = [stacks EXCEPT ![R(Top.kind)] =
                        Append(@, [input |-> Top.input, output |-> DefaultValue])]
                /\ frames' = SetTop([Top EXCEPT !.pc = "next_value", !.h_how = "fixed"])
    /\ UNCHANGED <<ret, status, last>>
    /\ UNCHANGED <<dbs, news>>

\* The approximation stored for the input of frame f (the top of its stack
\* while f is evaluating its rules).
Stored(f) == stacks[R(f.kind)][Len(stacks[R(f.kind)])].output

\* The closure without failed_rules.clear(): failures pile up over rounds.
RoundBeginKeepFailed(f) ==
    [f EXCEPT !.output = {}, !.rule = 1, !.pc = "rule",
              !.pos = 0, !.step_index = 0, !.env = <<>>, !.loops = <<>>,
              !.h_visited = <<>>, !.h_fail = {}, !.h_contrib = {},
              !.h_elements = 0, !.h_started = 0,
              !.h_approx = Stored(f)]

\* judgment_fn!, the next-value closure: a new output set, the failed rules
\* cleared, then the rules from the first one.
RoundBegin(f) ==
    [f EXCEPT !.output = {}, !.failed_rules = {}, !.rule = 1, !.pc = "rule",
              !.pos = 0, !.step_index = 0, !.env = <<>>, !.loops = <<>>,
              !.h_visited = <<>>, !.h_fail = {}, !.h_contrib = {},
              !.h_elements = 0, !.h_started = 0,
              !.h_approx = Stored(f)]

NextValue ==
    /\ Running
    /\ Top.pc = "next_value"
    /\ frames' = SetTop(RoundBegin(Top))
    /\ UNCHANGED <<stacks, ret, status, last>>
    /\ UNCHANGED <<dbs, news>>

\* A match phase that reports the mismatch of the conclusion pattern as a
\* failure of the rule at step 0.
RuleMatchRecordsMismatch ==
    /\ Running
    /\ Top.pc = "rule"
    /\ Top.rule <= NumRules(Top)
    /\ LET f == [Top EXCEPT !.h_visited = Append(@, Top.rule)]
       IN  IF Downcast(RuleOf(Top).pat, Top.input)
           THEN frames' = SetTop([f EXCEPT !.step_index = 0, !.pos = 0,
                                           !.env = <<>>, !.loops = <<>>,
                                           !.pc = "body"])
           ELSE frames' = SetTop([f EXCEPT
                    !.rule = NextRule(f),
                    !.failed_rules = @ \cup
                        {[rule |-> RuleOf(Top).name, step |-> 0,
                          cause |-> Cause("IfLetDidNotMatch", Bang)]}])
    /\ UNCHANGED <<stacks, ret, status, last>>
    /\ UNCHANGED <<dbs, news>>

\* push_rules! @accum (conclusion) and @match: the conclusion patterns are
\* matched against the input; the conditions run with step_index = 0 when
\* they match, and the rule is skipped when they do not.
RuleMatch ==
    /\ Running
    /\ Top.pc = "rule"
    /\ Top.rule <= NumRules(Top)
    /\ LET f == [Top EXCEPT !.h_visited = Append(@, Top.rule)]
       IN  IF Downcast(RuleOf(Top).pat, Top.input)
           THEN frames' = SetTop([f EXCEPT !.step_index = 0, !.pos = 0,
                                           !.env = <<>>, !.loops = <<>>,
                                           !.pc = "body"])
           ELSE frames' = SetTop([f EXCEPT !.rule = NextRule(f)])
    /\ UNCHANGED <<stacks, ret, status, last>>
    /\ UNCHANGED <<dbs, news>>

\* @body (if $c)
BodyIf ==
    /\ InBody("if")
    /\ IF EvalBool(CurCond.e, Top.input, Top.env)
       THEN frames' = SetTop(Proceed(Top, 0))
       ELSE frames' = SetTop(Unwind(RecordFailure(Top, Cause("IfFalse", CurCond))))
    /\ UNCHANGED <<stacks, ret, status, last>>
    /\ UNCHANGED <<dbs, news>>

\* @body (assert $c)
BodyAssert ==
    /\ InBody("assert")
    /\ IF EvalBool(CurCond.e, Top.input, Top.env)
       THEN /\ frames' = SetTop(Proceed(Top, 0))
            /\ UNCHANGED status
       ELSE /\ status' = "aborted"
            /\ UNCHANGED frames
    /\ UNCHANGED <<stacks, ret, last>>
    /\ UNCHANGED <<dbs, news>>

\* @body (if let $p = $e), with $p the pattern Some(m)
BodyIfLet ==
    /\ InBody("iflet")
    /\ LET value == EvalIter(CurCond.e, Top.input, Top.env)
       IN  IF value.ok
           THEN frames' = SetTop(Proceed(Top, value.items[1]))
           ELSE frames' = SetTop(Unwind(RecordFailure(Top,
                                    Cause("IfLetDidNotMatch", CurCond))))
    /\ UNCHANGED <<stacks, ret, status, last>>
    /\ UNCHANGED <<dbs, news>>

\* @body (let $p = $i)
BodyLet ==
    /\ InBody("let")
    /\ frames' = SetTop(Proceed(Top, EvalVal(CurCond.e, Top.input, Top.env)))
    /\ UNCHANGED <<stacks, ret, status, last>>
    /\ UNCHANGED <<dbs, news>>

\* @body ($i => $p), $i a collection or an optional
BodyIter ==
    /\ InBody("iter")
    /\ LET i == EvalIter(CurCond.e, Top.input, Top.env)
       IN  IF i.ok
           THEN frames' = SetTop(StartIter(Top, i.items))
           ELSE frames' = SetTop(Unwind(RecordFailure(Top,
                                    Cause("Inapplicable", CurCond))))
    /\ UNCHANGED <<stacks, ret, status, last>>
    /\ UNCHANGED <<dbs, news>>

\* @body ($i => $p) or (if $c), with a judgment applied to an argument in
\* $i or $c: the call.
BodyCall ==
    /\ (InBody("call") \/ InBody("unless"))
    /\ frames' = Append(SetTop([Top EXCEPT !.pc = "wait"]),
                        NewFrame(CurCond.j, EvalVal(CurCond.e, Top.input, Top.env)))
    /\ UNCHANGED <<stacks, ret, status, last>>
    /\ UNCHANGED <<dbs, news>>

\* TryIntoIter for a ProvenSet: the proven outputs in order, or an error
\* for a failed judgment.
TryIntoIter(ps) == [ok |-> ps.tag = "Proven", items |-> SetToSeq(ps.set)]

\* @body ($i => $p) or (if $c): the callee has returned.  The iteration
\* converts the result and loops; the test holds when it does not convert.
BodyResume ==
    /\ Running
    /\ Top.pc = "wait"
    /\ ret # NoRet
    /\ LET i == TryIntoIter(ret)
           c == Conds(RuleOf(Top))[Top.pos + 1]
       IN  IF c.k = "unless"
           THEN IF i.ok
                THEN frames' = SetTop(Unwind(RecordFailure(Top, Cause("IfFalse", c))))
                ELSE frames' = SetTop([Proceed(Top, 0) EXCEPT !.pc = "body"])
           ELSE IF i.ok
                THEN frames' = SetTop(StartIter(Top, i.items))
                ELSE frames' = SetTop(Unwind(RecordFailure(Top,
                                         Cause("FailedJudgment", c))))
    /\ ret' = NoRet
    /\ UNCHANGED <<stacks, status, last>>
    /\ UNCHANGED <<dbs, news>>

\* A conclusion that replaces what the round has inserted so far.
InsertAlone(output, v) == {v}

\* A conclusion whose value is computed and dropped.
InsertDropped(output, v) == output

\* @body, the conclusion: $output.insert(upcast($v))
Insert(output, v) == output \cup {v}

BodyConclusion ==
    /\ Running
    /\ Top.pc = "body"
    /\ Top.pos = Len(Conds(RuleOf(Top)))
    /\ LET v == EvalVal(RuleOf(Top).v, Top.input, Top.env)
       IN  frames' = SetTop(Unwind([Top EXCEPT
                        !.output = Insert(@, v),
                        !.h_contrib = @ \cup {[rule |-> Top.rule, v |-> v]}]))
    /\ UNCHANGED <<stacks, ret, status, last>>
    /\ UNCHANGED <<dbs, news>>

(***************************************************************************)
(* fixed_point: the end of a round.  A candidate equal to the stored       *)
(* approximation is the fixed point: the entry is popped and its value     *)
(* returned.  Any other candidate is stored and the rules run again.       *)
(***************************************************************************)
\* A test for growth instead of equality: "nothing was lost" ends the loop.
ConvergedIfNotShrunk(stored, candidate) == stored \subseteq candidate

\* A loop that leaves its entry on the stack when it ends.
UpdateOutputNoPop ==
    /\ Running
    /\ Top.pc = "rule"
    /\ Top.rule > Len(Judgment(Top.kind).rules)
    /\ LET stack == stacks[R(Top.kind)]
           n == Len(stack)
       IN  IF stack[n].output = Top.output
           THEN /\ UNCHANGED stacks
                /\ frames' = SetTop([Top EXCEPT !.result = stack[n].output,
                                                !.pc = "finish",
                                                !.h_cand = Top.output,
                                                !.h_rounds = @ + 1])
           ELSE /\ stacks' = [stacks EXCEPT ![R(Top.kind)][n].output = Top.output]
                /\ frames' = SetTop([Top EXCEPT !.pc = "next_value",
                                                !.h_cand = Top.output,
                                                !.h_rounds = @ + 1])
    /\ UNCHANGED <<ret, status, last>>
    /\ UNCHANGED <<dbs, news>>

\* A loop that pushes the new candidate as a further entry instead of
\* replacing the approximation of the entry it has.
UpdateOutputPushAgain ==
    /\ Running
    /\ Top.pc = "rule"
    /\ Top.rule > Len(Judgment(Top.kind).rules)
    /\ LET stack == stacks[R(Top.kind)]
           n == Len(stack)
       IN  IF stack[n].output = Top.output
           THEN /\ stacks' = [stacks EXCEPT ![R(Top.kind)] = SubSeq(stack, 1, n - 1)]
                /\ frames' = SetTop([Top EXCEPT !.result = stack[n].output,
                                                !.pc = "finish",
                                                !.h_cand = Top.output,
                                                !.h_rounds = @ + 1])
           ELSE /\ stacks' = [stacks EXCEPT ![R(Top.kind)] =
                        Append(@, [input |-> Top.input, output |-> Top.output])]
                /\ frames' = SetTop([Top EXCEPT !.pc = "next_value",
                                                !.h_cand = Top.output,
                                                !.h_rounds = @ + 1])
    /\ UNCHANGED <<ret, status, last>>
    /\ UNCHANGED <<dbs, news>>

Converged(stored, candidate) == stored = candidate

UpdateOutput ==
    /\ Running
    /\ Top.pc = "rule"
    /\ Top.rule > NumRules(Top)
    /\ LET stack == stacks[R(Top.kind)]
           n == Len(stack)
       IN  IF Converged(stack[n].output, Top.output)
           THEN /\ stacks' = [stacks EXCEPT ![R(Top.kind)] = SubSeq(stack, 1, n - 1)]
                /\ frames' = SetTop([Top EXCEPT !.result = stack[n].output,
                                                !.pc = "finish",
                                                !.h_cand = Top.output,
                                                !.h_rounds = @ + 1])
           ELSE /\ stacks' = [stacks EXCEPT ![R(Top.kind)][n].output = Top.output]
                /\ frames' = SetTop([Top EXCEPT !.pc = "next_value",
                                                !.h_cand = Top.output,
                                                !.h_rounds = @ + 1])
    /\ UNCHANGED <<ret, status, last>>
    /\ UNCHANGED <<dbs, news>>

\* One failed-rule set for all the calls in progress: a call reports the
\* failures of the outermost one.
FinishSharedFailures ==
    /\ Running
    /\ Top.pc = "finish"
    /\ LET o == IF Top.result # {} THEN Proven(Top.result)
                ELSE Failed(Top.input, frames[1].failed_rules)
       IN  /\ frames' = SetTop([Top EXCEPT !.outcome = o, !.pc = "return"])
           /\ UNCHANGED status
    /\ UNCHANGED <<stacks, ret, last>>
    /\ UNCHANGED <<dbs, news>>

\* A slip in the final test: the output is handed to proven() unchecked.
FinishOutcomeUnchecked(input, output, failed_rules) == Proven(output)

\* judgment_fn!: proven(output) if the output is not empty, else
\* failed_rules(&input, failed_rules).
FinishOutcome(input, output, failed_rules) ==
    IF output # {} THEN Proven(output) ELSE Failed(input, failed_rules)

\* ProvenSet::proven refuses an empty set (a programming error).
ProvenPanics(ps) == ps.tag = "Proven" /\ ps.set = {}

Finish ==
    /\ Running
    /\ Top.pc = "finish"
    /\ LET o == FinishOutcome(Top.input, Top.result, Top.failed_rules)
       IN  IF ProvenPanics(o)
           THEN /\ status' = "aborted"
                /\ frames' = SetTop([Top EXCEPT !.pc = "panic"])
           ELSE /\ frames' = SetTop([Top EXCEPT !.outcome = o, !.pc = "return"])
                /\ UNCHANGED status
    /\ UNCHANGED <<stacks, ret, last>>
    /\ UNCHANGED <<dbs, news>>

\* The function returns: to the condition that applied it, or to the
\* caller outside the engine.
Return ==
    /\ Running
    /\ Top.pc = "return"
    /\ frames' = SubSeq(frames, 1, Len(frames) - 1)
    /\ IF Len(frames) > 1
       THEN /\ ret' = Top.outcome
            /\ UNCHANGED <<status, last>>
       ELSE /\ ret' = NoRet
            /\ status' = "idle"
            /\ last' = [kind |-> Top.kind, input |-> Top.input, outcome |-> Top.outcome]
    /\ UNCHANGED stacks
    /\ UNCHANGED <<dbs, news>>

Step ==
    \/ CheckAsserts
    \/ CheckTrivial
    \/ FixedPointEnter
    \/ NextValue
    \/ RuleMatch
    \/ BodyIf
    \/ BodyAssert
    \/ BodyIfLet
    \/ BodyLet
    \/ BodyIter
    \/ BodyCall
    \/ BodyResume
    \/ BodyConclusion
    \/ UpdateOutput
    \/ Finish
    \/ Return

Next ==
    \/ \E k \in Kinds, n \in Inputs : Call(k, n)
    \/ Step

Spec == Init /\ [][Next]_vars

\* The evaluation is synchronous: a running call always takes its next step.
FairSpec == Init /\ [][Next]_vars /\ WF_vars(Step)

\* The life of the Db handles, apart from the evaluation of judgments.
DbNext ==
    \/ \E s \in Slots, a \in Addrs : DbNew(s, a)
    \/ \E s, t \in Slots : DbClone(s, t)
    \/ \E s \in Slots : DbDrop(s)

DbSpec == Init /\ [][DbNext]_vars

(***************************************************************************)
(* Properties.                                                             *)
(***************************************************************************)
FrameIds == 1 .. Len(frames)

ThroughFixedPoint(f) == f.h_how \in {"fixed", "cycle"}

\* C1: a call that returns yields Proven(S) with S non-empty or Failed;
\* through the fixed point it is Proven exactly when the set the fixed point
\* returned is non-empty (and then carries that set) and Failed exactly
\* when it is empty; proven() is never reached with an empty set.
C1_ProvenIffNonEmpty ==
    /\ \A i \in FrameIds :
        LET f == frames[i]
        IN  /\ f.pc # "panic"
            /\ f.pc = "return" =>
                /\ f.outcome.tag \in {"Proven", "Failed"}
                /\ f.outcome.tag = "Proven" => f.outcome.set # {}
                /\ ThroughFixedPoint(f) =>
                    /\ f.outcome.tag = "Proven" <=> f.result # {}
                    /\ f.outcome.tag = "Failed" <=> f.result = {}
                    /\ f.outcome.tag = "Proven" => f.outcome.set = f.result
    /\ ret.tag = "Proven" => ret.set # {}
    /\ last.outcome.tag = "Proven" => last.outcome.set # {}

\* A call about to return Failed for an empty fixed point, after a call
\* that returned Proven for a non-empty one.
C1_Witness ==
    /\ Running
    /\ Top.pc = "return"
    /\ Top.h_how = "fixed"
    /\ Top.outcome.tag = "Failed"
    /\ Top.result = {}
    /\ last.outcome.tag = "Proven"
    /\ Cardinality(last.outcome.set) > 1

OnStackAtEntry(f) ==
    \E e \in 1 .. Len(f.h_entry[f.kind]) : f.h_entry[f.kind][e].input = f.input

\* C2: a call whose input is being evaluated further up the stack of its
\* kind pushes nothing and runs no rule; it returns the approximation stored
\* for the input: the empty set while the outer evaluation is in its first
\* round, the candidate of the latest completed round afterwards.
C2_ReentrantReturnsApproximation ==
    \A i \in FrameIds :
        LET f == frames[i]
        IN  /\ ( /\ OnStackAtEntry(f)
                 /\ f.pc \notin {"assert", "trivial", "fixed_point"}
                 /\ f.h_how # "trivial" ) => f.h_how = "cycle"
            /\ f.h_how = "cycle" =>
                /\ OnStackAtEntry(f)
                /\ stacks = f.h_entry
                /\ f.rule = 0 /\ f.h_rounds = 0 /\ f.h_visited = <<>>
                /\ f.output = {} /\ f.failed_rules = {}
                /\ \E j \in 1 .. (i - 1) :
                    /\ frames[j].kind = f.kind
                    /\ frames[j].input = f.input
                    /\ frames[j].h_how = "fixed"
                    /\ frames[j].pc = "wait"
                    /\ f.result = IF frames[j].h_rounds = 0 THEN {}
                                  ELSE frames[j].h_cand

\* A re-entrant call answered with a non-empty approximation, two calls
\* below the evaluation it re-enters.
C2_Witness ==
    /\ Running
    /\ Len(frames) >= 3
    /\ Top.h_how = "cycle"
    /\ Top.pc = "finish"
    /\ Top.result # {}
    /\ \E j \in 1 .. (Len(frames) - 2) :
        /\ frames[j].kind = Top.kind
        /\ frames[j].input = Top.input
        /\ frames[j].h_rounds >= 1

\* The stack entry an evaluating frame pushed for its input.
EntryOf(f) == stacks[f.kind][Len(f.h_entry[f.kind]) + 1]

RuleOutputs(f) == {c.v : c \in f.h_contrib}

\* C3: the loop stops at the first round whose candidate equals the stored
\* approximation, and otherwise stores the candidate and runs again; the set
\* returned is a fixed point: the rules, run while every re-entrant call on
\* the input is answered with that set, produce that set.
C3_ReturnsFixedPoint ==
    \A i \in FrameIds :
        LET f == frames[i]
        IN  f.h_how = "fixed" =>
                /\ f.pc \in {"finish", "return"} =>
                    /\ f.h_cand = f.h_approx
                    /\ f.result = f.h_cand
                    /\ f.result = RuleOutputs(f)
                /\ (f.pc = "next_value" /\ f.h_rounds >= 1) =>
                    /\ f.h_cand # f.h_approx
                    /\ EntryOf(f).output = f.h_cand
                /\ f.pc \in {"rule", "body", "wait"} =>
                    /\ EntryOf(f).input = f.input
                    /\ EntryOf(f).output = f.h_approx

\* A fixed point reached in the third round or later, with outputs.
C3_Witness ==
    /\ Running
    /\ Top.h_how = "fixed"
    /\ Top.pc = "finish"
    /\ Top.h_rounds >= 3
    /\ Top.result # {}
    /\ Top.result = Top.h_approx

\* C4: a failing condition is inserted into the failed rules if and only if
\* its position in the rule is at or after the commit point, in every branch
\* of every iteration of the rule.
C4_CommitPointFilter ==
    \A i \in FrameIds :
        \A e \in frames[i].h_fail :
            e.recorded <=>
                e.pos >= MatchIndex(Judgment(frames[i].kind).rules[e.rule])

\* The failures inserted in the round a frame is in (or ended with).
RoundFailures(f) == {e.fr : e \in {x \in f.h_fail : x.recorded}}

\* C5: the failed-rule set holds the failures of the current round only (it
\* is cleared when a round starts), so a Failed result carries exactly the
\* failures recorded in the last round.
C5_FailuresOfLastRoundOnly ==
    \A i \in FrameIds :
        LET f == frames[i]
        IN  /\ f.failed_rules = RoundFailures(f)
            /\ (f.pc = "return" /\ f.h_how = "fixed" /\ f.outcome.tag = "Failed") =>
                /\ f.outcome.rules = RoundFailures(f)
                /\ f.outcome.input = f.input

\* A Failed result with the failures of two rules, returned to a caller.
C5_Witness ==
    /\ Running
    /\ Len(frames) >= 2
    /\ Top.pc = "return"
    /\ Top.h_how = "fixed"
    /\ Top.outcome.tag = "Failed"
    /\ Cardinality(Top.outcome.rules) >= 2

\* C6: in every round every rule is tried, in declared order, whatever the
\* rules before it did; the output of the round is the union of what the
\* rules produced; the judgment is Failed only if no rule produced an
\* output, and a Proven result surfaces no failed rule.
C6_RuleFailureIsLocal ==
    \A i \in FrameIds :
        LET f == frames[i]
        IN  f.h_how = "fixed" =>
                /\ f.pc \in {"body", "wait"} => f.h_visited = UpTo(1, f.rule)
                /\ f.pc = "rule" => f.h_visited = UpTo(1, f.rule - 1)
                /\ (f.pc = "rule" /\ f.rule > NumRules(f)) =>
                    /\ f.h_visited = UpTo(1, NumRules(f))
                    /\ f.output = RuleOutputs(f)
                /\ f.pc = "return" =>
                    /\ f.h_visited = UpTo(1, NumRules(f))
                    /\ f.outcome.tag = "Failed" => f.h_contrib = {}
                    /\ f.h_contrib # {} =>
                        /\ f.outcome = Proven(RuleOutputs(f))
                        /\ f.outcome.rules = {}

\* A Proven result of a round in which the first rule failed and a later
\* rule produced the output.
C6_Witness ==
    /\ Running
    /\ Top.pc = "return"
    /\ Top.h_how = "fixed"
    /\ Top.outcome.tag = "Proven"
    /\ Top.failed_rules # {}
    /\ \E e \in Top.h_fail, c \in Top.h_contrib : e.recorded /\ e.rule < c.rule

SameQueryAsLast(f) == f.kind = last.kind /\ f.input = last.input

\* C7 (as stated): any evaluation of a judgment, top-level or nested under
\* other inputs of its kind, returns the outcome that the latest top-level
\* evaluation of the same judgment on an equal input returned.  (A call
\* intercepted as a cycle evaluates nothing and is left out.)
C7_Determinism ==
    \A i \in FrameIds :
        ( /\ frames[i].pc = "return"
          /\ frames[i].h_how # "cycle"
          /\ SameQueryAsLast(frames[i]) ) =>
            frames[i].outcome = last.outcome

\* C7 (amended): two top-level evaluations of the same judgment on equal
\* inputs return equal outcomes.
C7_TopLevelDeterminism ==
    (Len(frames) = 1 /\ frames[1].pc = "return" /\ SameQueryAsLast(frames[1])) =>
        frames[1].outcome = last.outcome

\* The second top-level evaluation of a cyclic query, about to return what
\* the first returned after several rounds.
C7_Witness ==
    /\ Len(frames) = 1
    /\ frames[1].pc = "return"
    /\ SameQueryAsLast(frames[1])
    /\ frames[1].h_how = "fixed"
    /\ frames[1].h_rounds >= 3
    /\ frames[1].outcome = last.outcome

TopLevelCall(k) == Running /\ frames[1].kind = k

Returned(k, n) == status = "idle" /\ last.kind = k /\ last.input = n

\* C8: is_even calls itself on strictly smaller inputs only, and every
\* top-level call of it returns: Proven with the one output n for an even
\* n (so for 4), Failed for an odd n (so for 3).
C8_WellFoundedTerminates ==
    /\ [](\A i, j \in FrameIds :
            (i < j /\ frames[i].kind = "is_even" /\ frames[j].kind = "is_even")
                => frames[j].input < frames[i].input)
    /\ TopLevelCall("is_even") ~> (status = "idle" /\ last.kind = "is_even")
    /\ [](\A n \in Inputs :
            Returned("is_even", n) =>
                /\ n % 2 = 0 => last.outcome = Proven({n})
                /\ n % 2 = 1 => last.outcome.tag = "Failed")

\* is_even(3) about to return Failed right after is_even(4) returned
\* Proven({4}).
C8_Witness ==
    /\ Len(frames) = 1
    /\ frames[1].kind = "is_even" /\ frames[1].input = 3
    /\ frames[1].pc = "return"
    /\ frames[1].outcome.tag = "Failed"
    /\ last = [kind |-> "is_even", input |-> 4, outcome |-> Proven({4})]

Trivials(f) == Judgment(f.kind).trivials

TrivialTrue(f, i) == EvalBool(Trivials(f)[i].c, f.input, <<>>)

\* C9: with the assertions holding and a trivial condition true, the call
\* returns Proven of the one result paired with the first true trivial
\* condition; no rule runs and the stacks stay as they were at the call.
C9_TrivialFastPath ==
    \A i \in FrameIds :
        LET f == frames[i]
        IN  /\ f.h_how = "trivial" =>
                /\ AssertsHold(f)
                /\ f.pc = "return"
                /\ \E t \in 1 .. Len(Trivials(f)) :
                    /\ TrivialTrue(f, t)
                    /\ \A u \in 1 .. (t - 1) : ~TrivialTrue(f, u)
                    /\ f.outcome = Proven({EvalVal(Trivials(f)[t].r, f.input, <<>>)})
                /\ Cardinality(f.outcome.set) = 1
                /\ stacks = f.h_entry
                /\ f.rule = 0 /\ f.h_visited = <<>> /\ f.h_rounds = 0
                /\ f.h_fail = {} /\ f.h_contrib = {}
            /\ ( /\ AssertsHold(f)
                 /\ \E t \in 1 .. Len(Trivials(f)) : TrivialTrue(f, t)
                 /\ f.pc \notin {"assert", "trivial"} ) => f.h_how = "trivial"

\* A nested call answered by the fast path while its kind's stack holds an
\* entry, with two trivial conditions true at once.
C9_Witness ==
    /\ Running
    /\ Len(frames) >= 2
    /\ Top.h_how = "trivial"
    /\ stacks[Top.kind] # <<>>
    /\ Cardinality({t \in 1 .. Len(Trivials(Top)) : TrivialTrue(Top, t)}) >= 2

\* C10: the assertions are checked once per call, before the trivial cases
\* and before any rule or stack operation, and never again in later rounds;
\* a false assertion aborts the call, also when a trivial condition is
\* true: no outcome is produced and the stacks are left as they were.
C10_AssertionsAreFatal ==
    /\ \A i \in FrameIds :
        LET f == frames[i]
        IN  /\ f.h_asserted <= 1
            /\ f.pc # "assert" => f.h_asserted = 1
            /\ f.pc = "assert" =>
                /\ stacks = f.h_entry
                /\ f.h_how = "none" /\ f.rule = 0 /\ f.h_rounds = 0
            /\ ~AssertsHold(f) =>
                /\ f.pc = "assert"
                /\ f.outcome = NoRet
                /\ f.h_asserted = 1 => status = "aborted"
    /\ status = "aborted" =>
        /\ ~AssertsHold(Top)
        /\ Top.h_asserted = 1
        /\ ret = NoRet

\* A nested call aborted by its assertion although a trivial condition is
\* true, with an entry of its kind on the stack.
C10_Witness ==
    /\ status = "aborted"
    /\ Len(frames) >= 2
    /\ ~AssertsHold(Top)
    /\ \E t \in 1 .. Len(Trivials(Top)) : TrivialTrue(Top, t)
    /\ stacks[Top.kind] # <<>>
    /\ stacks = Top.h_entry

\* A frame that went through the push of fixed_point and has not been popped.
Evaluating(f) ==
    f.h_how = "fixed" /\ f.pc \in {"next_value", "rule", "body", "wait"}

EvaluatingOf(k) == SelectSeq(frames, LAMBDA f : f.kind = k /\ Evaluating(f))

IsPrefix(s, t) == Len(s) <= Len(t) /\ SubSeq(t, 1, Len(s)) = s

\* C11: the stack of a kind holds one entry for every evaluation of that
\* kind in progress, in call order (pushed once at its start, on top of the
\* entries found there, and popped at its end), the entry holds the empty
\* set during the first round and the candidate of the latest round
\* afterwards, no input is on a stack twice, a call that is about to return
\* leaves every stack as it found it, and with no call running every stack
\* is empty.
C11_StackLifecycle ==
    /\ \A k \in Kinds :
        LET ev == EvaluatingOf(k)
        IN  /\ Len(stacks[k]) = Len(ev)
            /\ \A i \in 1 .. Len(ev) :
                /\ stacks[k][i].input = ev[i].input
                /\ stacks[k][i].output =
                        IF ev[i].h_rounds = 0 THEN {} ELSE ev[i].h_cand
                /\ Len(ev[i].h_entry[k]) = i - 1
            /\ \A i, j \in 1 .. Len(stacks[k]) :
                i # j => stacks[k][i].input # stacks[k][j].input
    /\ \A i \in FrameIds :
        LET f == frames[i]
        IN  /\ \A k \in Kinds : IsPrefix(f.h_entry[k], stacks[k])
            /\ f.pc \in {"finish", "return"} => stacks = f.h_entry
    /\ status = "idle" => \A k \in Kinds : stacks[k] = <<>>

\* A nested evaluation about to return after two rounds or more, with the
\* entries of two outer evaluations of its kind back as it found them.
C11_Witness ==
    /\ Running
    /\ Len(frames) >= 3
    /\ Top.pc = "return"
    /\ Top.h_how = "fixed"
    /\ Top.h_rounds >= 2
    /\ Len(stacks[Top.kind]) >= 2
    /\ stacks = Top.h_entry

\* C12: a call is intercepted as a cycle only by an entry of its own kind:
\* an input that is on the stack of another kind only is pushed and
\* evaluated, an intercepted call returns the approximation of the entry of
\* its own kind, and the innermost call finds the stacks of all the other
\* kinds as they were when it was called.
C12_StacksIsolatedPerKind ==
    \A i \in FrameIds :
        LET f == frames[i]
        IN  /\ f.h_how = "cycle" =>
                \E e \in 1 .. Len(f.h_entry[f.kind]) :
                    /\ f.h_entry[f.kind][e].input = f.input
                    /\ f.result = f.h_entry[f.kind][e].output
            /\ ( /\ ~OnStackAtEntry(f)
                 /\ f.pc \notin {"assert", "trivial", "fixed_point"}
                 /\ f.h_how # "trivial" ) => f.h_how = "fixed"
            /\ i = Len(frames) =>
                \A k \in Kinds \ {f.kind} : stacks[k] = f.h_entry[k]

\* pong(I) being evaluated, not intercepted, under ping(I): the two stacks
\* hold the same input with different approximations.
C12_Witness ==
    /\ Running
    /\ Len(frames) = 2
    /\ frames[1].kind = "ping" /\ frames[2].kind = "pong"
    /\ frames[1].input = frames[2].input
    /\ Evaluating(frames[1]) /\ Evaluating(frames[2])
    /\ stacks["ping"][1].output # {}
    /\ stacks["pong"][1].output # stacks["ping"][1].output

\* A top-level call about to return right after the same input was given
\* to the twin of its judgment.
AfterTwin ==
    /\ Len(frames) = 1
    /\ frames[1].pc = "return"
    /\ last.kind = Twin(frames[1].kind)
    /\ last.input = frames[1].input

\* The two judgments agree on Proven / Failed and on the output set.
TwinsAgreeOnOutputs ==
    AfterTwin =>
        /\ frames[1].outcome.tag = last.outcome.tag
        /\ frames[1].outcome.set = last.outcome.set

\* The branches of the rules fail at the same conditions in both judgments;
\* the failure of a condition is in the result of the judgment in which the
\* condition is at or after the marker and in no other.
TwinsDifferByMarker ==
    (AfterTwin /\ frames[1].outcome.tag = "Failed") =>
        \A e \in frames[1].h_fail :
            /\ e.fr \in frames[1].outcome.rules <=>
                    e.pos >= MatchIndex(Judgment(frames[1].kind).rules[e.rule])
            /\ e.fr \in last.outcome.rules <=>
                    e.pos >= MatchIndex(Judgment(last.kind).rules[e.rule])

\* C13: two judgments that differ in the position of the marker of one rule
\* return, on every input, the same Proven / Failed status and the same
\* output set; their Failed results differ in the failures of the
\* conditions between the two markers only: absent where the condition is
\* before the marker, present where it is not.
C13_MarkerChangesDiagnosticsOnly ==
    TwinsAgreeOnOutputs /\ TwinsDifferByMarker

\* The entries a Failed result carries for rule r of the judgment of f.
EntriesOf(f, r) ==
    {fr \in f.outcome.rules : fr.rule = Judgment(f.kind).rules[r].name}

FailedBeforeCommit(f, r) ==
    \E e \in f.h_fail :
        e.rule = r /\ e.pos < MatchIndex(Judgment(f.kind).rules[r])

FailedAtReturn(f) ==
    f.pc = "return" /\ f.h_how = "fixed" /\ f.outcome.tag = "Failed"

AtMostOneEntryPerRule ==
    \A i \in FrameIds :
        FailedAtReturn(frames[i]) =>
            \A r \in 1 .. NumRules(frames[i]) :
                Cardinality(EntriesOf(frames[i], r)) <= 1

EveryAttemptedRuleHasEntry ==
    \A i \in FrameIds :
        LET f == frames[i]
        IN  FailedAtReturn(f) =>
                \A r \in 1 .. NumRules(f) :
                    ( /\ Downcast(Judgment(f.kind).rules[r].pat, f.input)
                      /\ ~FailedBeforeCommit(f, r) ) => EntriesOf(f, r) # {}

\* C14: in a Failed result no rule has more than one FailedRule entry, and
\* every rule whose conclusion pattern matched the input and none of whose
\* branches failed before its commit point has one (no rule reached its
\* conclusion, the result being Failed).
C14_OneEntryPerFailedRule ==
    AtMostOneEntryPerRule /\ EveryAttemptedRuleHasEntry

\* Two handles wrap the same implementor: they come from one Db::new call.
SameImplementor(a, b) == a.h_new = b.h_new

\* C15: two live Db handles are equal exactly when they come from the same
\* Db::new call (a handle and its clones) and have the same solver
\* configuration; handles of two Db::new calls are never equal; cmp
\* returns Equal exactly when eq holds; equal handles hash equally.
C15_DbHandleEquality ==
    \A s, t \in Live :
        LET a == dbs[s]
            b == dbs[t]
        IN  /\ DbEq(a, b) <=>
                (SameImplementor(a, b) /\ a.solver_config = b.solver_config)
            /\ ~SameImplementor(a, b) => ~DbEq(a, b)
            /\ DbCmp(a, b) = "Equal" <=> DbEq(a, b)
            /\ (DbCmp(a, b) = "Less" <=> DbCmp(b, a) = "Greater")
            /\ DbEq(a, b) => DbHash(a) = DbHash(b)

\* A handle, a clone of it, and a handle of a later Db::new call placed at
\* an address that an earlier, dropped, implementor had.
C15_Witness ==
    /\ Live = Slots
    /\ news = MaxNew
    /\ dbs[1] = dbs[2]
    /\ dbs[3].h_new = MaxNew
    /\ dbs[3].db < dbs[1].db
    /\ ~DbEq(dbs[1], dbs[3])

\* C16: the step index of every FailedRule inserted is the position, from
\* 0, of the condition that failed in the condition list of its rule, in
\* every branch of the rule.
C16_StepIndexIsPosition ==
    \A i \in FrameIds :
        \A e \in frames[i].h_fail :
            e.recorded => e.fr.step = e.pos

Applicable(f, r) == Downcast(Judgment(f.kind).rules[r].pat, f.input)

RuleNamed(f, name) ==
    CHOOSE r \in 1 .. NumRules(f) : Judgment(f.kind).rules[r].name = name

\* C17: the conclusion pattern is matched before any condition of the rule
\* runs; a rule whose pattern does not match the input evaluates no
\* condition, inserts no output and leaves no FailedRule, in the failed
\* rules of the round and in the result, wherever its commit point is.
C17_NoMatchNoTrace ==
    \A i \in FrameIds :
        LET f == frames[i]
        IN  /\ f.pc \in {"body", "wait"} => Applicable(f, f.rule)
            /\ \A e \in f.h_fail : Applicable(f, e.rule)
            /\ \A c \in f.h_contrib : Applicable(f, c.rule)
            /\ \A fr \in f.failed_rules \cup f.outcome.rules :
                Applicable(f, RuleNamed(f, fr.rule))

\* A call about to return Failed with the failure of another rule, after a
\* round that visited a rule whose pattern does not match the input.
C17_Witness ==
    /\ Running
    /\ FailedAtReturn(Top)
    /\ Top.outcome.rules # {}
    /\ \E r \in 1 .. NumRules(Top) :
        /\ ~Applicable(Top, r)
        /\ \E v \in 1 .. Len(Top.h_visited) : Top.h_visited[v] = r
        /\ MatchIndex(Judgment(Top.kind).rules[r]) > 0

IsIteration(c) == c.k \in {"iter", "call"}

\* The positions, before position p, of the iteration conditions of rule r.
IterationsBefore(f, p) ==
    {q \in 0 .. (p - 1) : IsIteration(Conds(RuleOf(f))[q + 1])}

RECURSIVE ElementsLeft(_)
ElementsLeft(loops) ==
    IF loops = <<>> THEN 0
    ELSE Len(loops[Len(loops)].rest) + ElementsLeft(SubSeq(loops, 1, Len(loops) - 1))

\* The second half of C18: an evaluation that is past an iteration
\* condition is inside its loop, with the pattern bound to an element of the
\* converted sequence; the elements are taken one by one in the order of the
\* sequence, each starting one run of the rest of the rule, none skipped
\* when a branch fails; what the branches inserted stays in the output of
\* the round.
ForksPerElement ==
    \A i \in FrameIds :
        LET f == frames[i]
        IN  /\ f.pc \in {"body", "wait"} =>
                /\ {f.loops[l].pos : l \in 1 .. Len(f.loops)} = IterationsBefore(f, f.pos)
                /\ \A l \in 1 .. Len(f.loops) :
                    LET lp == f.loops[l]
                        k == Len(lp.h_items) - Len(lp.rest)
                        c == Conds(RuleOf(f))[lp.pos + 1]
                    IN  /\ k >= 1
                        /\ lp.rest = SubSeq(lp.h_items, k + 1, Len(lp.h_items))
                        /\ f.env[lp.pos + 1] = lp.h_items[k]
                        /\ l > 1 => f.loops[l - 1].pos < lp.pos
                        /\ c.k = "iter" =>
                            LET v == EvalIter(c.e, f.input, SubSeq(f.env, 1, lp.pos))
                            IN  v.ok /\ v.items = lp.h_items
            /\ f.pc \in {"rule", "body", "wait"} =>
                /\ f.output = RuleOutputs(f)
                /\ f.h_started + ElementsLeft(f.loops) = f.h_elements
                /\ f.pc = "rule" => f.loops = <<>>

\* The running activation is at an iteration condition whose source does
\* not convert: a callee that has returned Failed, or an absent optional.
ConversionFails ==
    /\ Running
    /\ Top.pc \in {"body", "wait"}
    /\ Top.pos < Len(Conds(RuleOf(Top)))
    /\ \/ /\ Top.pc = "wait"
          /\ ret # NoRet
          /\ CurCond.k = "call"
          /\ ~TryIntoIter(ret).ok
       \/ /\ Top.pc = "body"
          /\ CurCond.k = "iter"
          /\ ~EvalIter(CurCond.e, Top.input, Top.env).ok

\* The first half of C18, for the step taken from such a state: a FailedRule
\* with the cause of the conversion is among the failed rules afterwards if
\* and only if the position of the condition is at or after the commit
\* point; the branch ends there (the next element of an enclosing iteration
\* starts, or the next rule), and the output is left as it was.
ConversionFailureEndsBranch ==
    ConversionFails =>
        LET d == Len(frames)
            f == frames[d]
            g == frames'[d]
        IN  /\ Len(frames') = d
            /\ (\E fr \in g.failed_rules :
                    /\ fr.rule = RuleOf(f).name
                    /\ fr.cause.cond = CurCond
                    /\ fr.cause.kind \in {"Inapplicable", "FailedJudgment"})
                <=> f.pos >= MatchIndex(RuleOf(f))
            /\ \/ g.pc = "rule" /\ g.rule = f.rule + 1
               \/ /\ g.pc = "body" /\ g.rule = f.rule
                  /\ g.pos <= f.pos
                  /\ g.h_started = f.h_started + 1
            /\ g.output = f.output

\* C18: a source that does not convert has its cause recorded, subject to
\* the commit-point filter, and ends its branch; a source that converts
\* has the rest of the rule run once per element, in order, a failing
\* branch neither stopping the later ones nor removing inserted outputs.
C18_IterationCondition ==
    /\ []ForksPerElement
    /\ [][ConversionFailureEndsBranch]_vars

\* nest(3) about to take the element 3 after the element 2 went past the
\* call of is_even, with the element 1 having failed it unrecorded.
NestAtFailedConversion ==
    /\ Len(frames) = 2
    /\ frames[1].kind = "nest" /\ frames[1].input = 3
    /\ frames[1].pc = "wait" /\ frames[1].pos = 1
    /\ frames[1].env = << 3 >>
    /\ frames[1].step_index = 2
    /\ frames[1].failed_rules # {}
    /\ frames[2].kind = "is_even" /\ frames[2].input = 3

\* The judgments applied by the conditions of the rules of judgment k.
Applies(k) ==
    {c.j : c \in UNION {{Conds(Judgment(k).rules[r])[p] :
                            p \in 1 .. Len(Conds(Judgment(k).rules[r]))} :
                        r \in 1 .. Len(Judgment(k).rules)}} \ {""}

RECURSIVE AppliedFrom(_, _)
AppliedFrom(S, n) ==
    IF n = 0 THEN S ELSE AppliedFrom(S \cup UNION {Applies(k) : k \in S}, n - 1)

\* The judgments no rule of which, nor of a judgment they apply, directly
\* or not, tests that a judgment is not proven.
PositiveKinds ==
    {k \in Kinds :
        \A j \in AppliedFrom({k}, Cardinality(Kinds)) :
            \A r \in 1 .. Len(Judgment(j).rules) :
                \A p \in 1 .. Len(Conds(Judgment(j).rules[r])) :
                    Conds(Judgment(j).rules[r])[p].k # "unless"}

Positive(k) == k \in PositiveKinds

\* C19 (as stated): the candidate stored after a round contains the
\* approximation stored before it, for every judgment and input.
C19_MonotoneApproximation ==
    \A i \in FrameIds :
        LET f == frames[i]
        IN  (f.h_how = "fixed" /\ f.h_rounds >= 1) => f.h_approx \subseteq f.h_cand

\* C19 (amended): the approximation stored after a round is the candidate
\* of that round; it contains the approximation stored before the round
\* when no rule of the judgment, nor of the judgments it applies, tests
\* that a judgment is not proven.
C19_MonotoneForPositiveRules ==
    \A i \in FrameIds :
        LET f == frames[i]
        IN  (f.h_how = "fixed" /\ f.h_rounds >= 1) =>
                /\ Evaluating(f) => EntryOf(f).output = f.h_cand
                /\ Positive(f.kind) => f.h_approx \subseteq f.h_cand

\* The third round or a later one of a judgment with positive rules has
\* ended with a candidate that adds outputs to a non-empty approximation.
C19_Witness ==
    /\ Running
    /\ Top.h_how = "fixed"
    /\ Top.pc = "next_value"
    /\ Positive(Top.kind)
    /\ Top.h_rounds >= 3
    /\ Top.h_approx # {}
    /\ Top.h_approx # Top.h_cand
    /\ Top.h_approx \subseteq Top.h_cand

\* The evaluation in progress that a call intercepted as a cycle re-enters.
OuterOf(i) ==
    CHOOSE j \in 1 .. (i - 1) :
        /\ frames[j].kind = frames[i].kind
        /\ frames[j].input = frames[i].input
        /\ Evaluating(frames[j])

\* C20: a call intercepted as a cycle runs no round and no rule and its
\* failed-rule set stays empty; when the approximation it was given is
\* empty it returns Failed with its input and no FailedRule; the failed
\* rules of the evaluation it re-enters remain those that evaluation has
\* recorded in its round so far.
C20_InterceptedCallFailsEmpty ==
    \A i \in FrameIds :
        LET f == frames[i]
        IN  f.h_how = "cycle" =>
                /\ f.failed_rules = {} /\ f.h_fail = {}
                /\ f.h_rounds = 0 /\ f.h_visited = <<>> /\ f.rule = 0
                /\ (f.pc = "return" /\ f.result = {}) =>
                        f.outcome = Failed(f.input, {})
                /\ (f.pc = "return" /\ f.result # {}) =>
                        f.outcome = Proven(f.result)
                /\ LET o == frames[OuterOf(i)]
                   IN  /\ o.failed_rules = RoundFailures(o)
                       /\ o.h_rounds = 0 => f.result = {}

\* An intercepted call about to return Failed with no FailedRule while the
\* evaluation it re-enters, two calls up, holds the failure of a rule.
C20_Witness ==
    /\ Running
    /\ Len(frames) >= 3
    /\ Top.h_how = "cycle"
    /\ Top.pc = "return"
    /\ Top.outcome = Failed(Top.input, {})
    /\ OuterOf(Len(frames)) < Len(frames) - 1
    /\ frames[OuterOf(Len(frames))].failed_rules # {}

====
